---------------------------- MODULE Spec2Model ----------------------------
(***************************************************************************)
(* Sallybraids booking site: the client booking flow (assets/app.js) and   *)
(* the admin dashboard (assets/admin.js) over the shared localStorage      *)
(* store; the page handlers run in mock mode (CONFIG.API_BASE_URL = ""),   *)
(* the gateway itself is also modelled with a backend configured.          *)
(*                                                                         *)
(* Representation:                                                         *)
(*  - money is kept in cents (a catalog price of 250 is 25000), so that    *)
(*    price * 0.35 is an integer; catalog prices are whole dollars;        *)
(*  - text typed into the form is a sequence of one-character strings, so  *)
(*    that trim() and the regular expressions are computed;                *)
(*  - JS null is the string "null"; a JSON round trip of a record of       *)
(*    strings and numbers returns the record it was given.                 *)
(***************************************************************************)
EXTENDS Integers, Sequences, FiniteSets, TLC

VARIABLES
  sb_bookings,        \* localStorage 'sb_bookings': sequence of bookings
  sb_blocks,          \* localStorage 'sb_blocks': sequence of calendar blocks
  sb_blackout_dates,  \* localStorage 'sb_blackout_dates' (client calendar)
  sb_settings,        \* localStorage 'sb_settings': <<>> when absent, else <<settings>>
  now,                \* Date.now(), in clock ticks
  client,             \* per browser tab of the client page: STATE and the form
  admin,              \* the admin page: STATE, session token, booking drawer
  event               \* the handler that ran last: its inputs, the gateway
                      \* calls it made and what it got back

vars ==
  <<sb_bookings, sb_blocks, sb_blackout_dates, sb_settings, now, client, admin, event>>

-----------------------------------------------------------------------------
(* Bounds of the model *)

MaxBookings == 2
MaxBlocks == 2
MaxClock == 1
(* requests of one page that await their response at the same time *)
MaxInFlight == 2

(* Program constants *)

DEPOSIT_PERCENT == 35
DEPOSIT_MIN == 15
startHour == 7
endHour == 19

-----------------------------------------------------------------------------
(* Input domains *)

Tabs == {"tabA", "tabB"}

(* what getBlackoutDates() stored on the first render of the calendar *)
BlackoutDates == <<"2025-11-17">>

(* 'SELECT' *)
NoteSelect ==
  <<"S", "E", "L", "E", "C", "T" >>

(* 'Human and braiding hair NOT included' *)
NoteHairNotIncluded ==
  <<"H", "u", "m", "a", "n", " ", "a", "n", "d", " ", "b", "r", "a", "i",
    "d", "i", "n", "g", " ", "h", "a", "i", "r", " ", "N", "O", "T", " ",
    "i", "n", "c", "l", "u", "d", "e", "d" >>

(* 'Base length is lower back' *)
NoteBaseLength ==
  <<"B", "a", "s", "e", " ", "l", "e", "n", "g", "t", "h", " ", "i", "s",
    " ", "l", "o", "w", "e", "r", " ", "b", "a", "c", "k" >>

(* 'DO NOT BOOK AFTER 8AM' *)
NoteDoNotBookAfter8AM ==
  <<"D", "O", " ", "N", "O", "T", " ", "B", "O", "O", "K", " ", "A", "F",
    "T", "E", "R", " ", "8", "A", "M" >>

Catalog ==
  << [id |-> "smedium-bohemian-fulani", title |-> "Smedium Bohemian Fulani",
      price |-> 250,
      notes |-> <<NoteSelect, NoteHairNotIncluded, NoteBaseLength,
                  NoteDoNotBookAfter8AM>>],
     [id |-> "edge-touch-up", title |-> "Edge Touch Up", price |-> 20,
      notes |-> <<>>],
     [id |-> "bead-add-on", title |-> "Bead Add-On", price |-> 10,
      notes |-> <<>>] >>

ServiceIds == {Catalog[i].id : i \in DOMAIN Catalog}

(* Text a customer may type, one character per element *)
Empty == <<>>
NameBlank == <<" ">>
NameJane == <<"J", "a", "n", "e">>

PhoneNineDigits == <<"5", "5", "5", "1", "2", "3", "4", "5", "6">>
PhoneWithLetter == <<"5", "5", "5", "1", "2", "3", "4", "5", "6", "7", "x">>
PhoneTenDigits == <<"5", "5", "5", "-", "1", "2", "3", "-", "4", "5", "6", "7">>
PhoneFormatted ==
  <<"+", "1", " ", "(", "5", "5", "5", ")", " ", "1", "2", "3", "-", "4", "5", "6", "7">>

EmailNotAnEmail == <<"n", "o", "t", "-", "a", "n", "-", "e", "m", "a", "i", "l">>
EmailNoTld == <<"j", "a", "n", "e", "@", "x">>
EmailWithSpace == <<"j", " ", "d", "@", "x", ".", "c", "a">>
EmailJane == <<"j", "a", "n", "e", "@", "x", ".", "c", "a">>

NameSamples == {Empty, NameBlank, NameJane}

PhoneSamples == {Empty, PhoneNineDigits, PhoneWithLetter, PhoneTenDigits, PhoneFormatted}

EmailSamples == {Empty, EmailNotAnEmail, EmailNoTld, EmailWithSpace, EmailJane}

-----------------------------------------------------------------------------
(* Helpers *)

MaxOf(a, b) == IF a >= b THEN a ELSE b

Cents(dollars) == dollars * 100

Digits == {"0", "1", "2", "3", "4", "5", "6", "7", "8", "9"}

Whitespace == {" "}

RECURSIVE trim(_)
trim(s) ==
  IF s = <<>> THEN s
  ELSE IF Head(s) \in Whitespace THEN trim(Tail(s))
  ELSE IF s[Len(s)] \in Whitespace THEN trim(SubSeq(s, 1, Len(s) - 1))
  ELSE s

IsDigit(c) == c \in Digits

digitsOnly(s) == SelectSeq(s, IsDigit)

(* /^[^\s@]+@[^\s@]+\.[^\s@]+$/ *)
emailRegexTest(v) ==
  \E i \in 1..Len(v) : \E j \in 1..Len(v) :
    /\ 1 < i
    /\ i + 1 < j
    /\ j < Len(v)
    /\ v[i] = "@"
    /\ v[j] = "."
    /\ \A k \in 1..Len(v) : k # i => v[k] \notin (Whitespace \cup {"@"})

(* /^\+?[\d\s\-\(\)]+$/ *)
phoneRegexTest(v) ==
  LET body == IF v # <<>> /\ Head(v) = "+" THEN Tail(v) ELSE v
  IN /\ body # <<>>
     /\ \A k \in 1..Len(body) :
          body[k] \in (Digits \cup Whitespace \cup {"-", "(", ")"})

(* STATE.catalog.find(s => s.id === id), for an id of the catalog *)
findService(id) ==
  Catalog[CHOOSE k \in DOMAIN Catalog :
            /\ Catalog[k].id = id
            /\ \A j \in 1..(k - 1) : Catalog[j].id # id]

(* obj.key = val on a JS object *)
Assign(obj, key, val) ==
  [k \in (DOMAIN obj) \cup {key} |-> IF k = key THEN val ELSE obj[k]]

(* { ...a, ...b } *)
Spread(a, b) ==
  [k \in (DOMAIN a) \cup (DOMAIN b) |-> IF k \in DOMAIN b THEN b[k] ELSE a[k]]

(* Array.prototype.findIndex, 0 for -1 *)
findIndex(list, id) ==
  IF \E i \in DOMAIN list : list[i].id = id
    THEN CHOOSE i \in DOMAIN list :
           /\ list[i].id = id
           /\ \A j \in 1..(i - 1) : list[j].id # id
    ELSE 0

pad2(n) == IF n < 10 THEN "0" \o ToString(n) ELSE ToString(n)

slotTime(hour) == pad2(hour) \o ":00"

-----------------------------------------------------------------------------
(* Client: validation (assets/app.js) *)

(* The value of a <select>: '' or the chosen option's value as one token *)
selectValue(x) == IF x = "null" \/ x = "" THEN <<>> ELSE <<x>>

(* Mutant of validateFieldError: only the required check is made *)
validateFieldErrorRequiredOnly(field) ==
  IF field.required /\ trim(field.value) = <<>> THEN "This field is required" ELSE ""

(* validateField: the error text, '' when the field is valid *)
validateFieldError(field) ==
  LET value == trim(field.value) IN
  IF field.required /\ value = <<>> THEN "This field is required"
  ELSE IF field.type = "email" /\ value # <<>>
    THEN (IF ~emailRegexTest(value) THEN "Please enter a valid email address" ELSE "")
  ELSE IF field.type = "tel" /\ value # <<>>
    THEN (IF ~phoneRegexTest(value) \/ Len(digitsOnly(value)) < 10
            THEN "Please enter a valid phone number" ELSE "")
  ELSE IF field.name = "service" /\ value = <<>> THEN "Please select a service"
  ELSE IF field.name = "time" /\ value = <<>> THEN "Please select a time slot"
  ELSE ""

(* the text fields of the booking form holding each of the samples *)
TypedFields ==
  {[name |-> "name", type |-> "text", required |-> TRUE, value |-> v] :
     v \in NameSamples}
    \cup {[name |-> "phone", type |-> "tel", required |-> TRUE, value |-> v] :
            v \in PhoneSamples}
    \cup {[name |-> "email", type |-> "email", required |-> TRUE, value |-> v] :
            v \in EmailSamples}

(* validateFieldError of each of them, computed once *)
typedFieldErrors == [field \in TypedFields |-> validateFieldError(field)]

(* validateField: errorDiv.textContent *)
errorShown(field) ==
  IF field \in TypedFields THEN typedFieldErrors[field] ELSE validateFieldError(field)

(* validateField: its return value *)
validateField(field) == errorShown(field) = ""

(* form.querySelectorAll('[required]') of the booking form, in document   *)
(* order; the form's markup (index.html) is not among the sources.        *)
requiredFields(form, st) ==
  << [name |-> "name", type |-> "text", required |-> TRUE, value |-> form.name],
     [name |-> "phone", type |-> "tel", required |-> TRUE, value |-> form.phone],
     [name |-> "email", type |-> "email", required |-> TRUE, value |-> form.email],
     [name |-> "service", type |-> "select-one", required |-> TRUE,
      value |-> selectValue(st.selectedService)],
     [name |-> "time", type |-> "select-one", required |-> TRUE,
      value |-> selectValue(st.selectedTime)] >>

truthy(x) == x # "null" /\ x # ""

(* errors shown under the required fields, in the order validated *)
RECURSIVE fieldErrors(_)
fieldErrors(fields) ==
  IF fields = <<>> THEN <<>>
  ELSE (IF validateField(Head(fields)) THEN <<>>
        ELSE <<[field |-> Head(fields).name,
                error |-> errorShown(Head(fields))]>>)
       \o fieldErrors(Tail(fields))

(* Mutant of submitErrors: validation stops at the first failing check *)
submitErrorsFirstOnly(form, st) ==
  LET all == fieldErrors(requiredFields(form, st))
               \o (IF ~truthy(st.selectedDate)
                     THEN <<[field |-> "date", error |-> "Please select a date"]>>
                     ELSE <<>>)
               \o (IF ~truthy(st.selectedTime)
                     THEN <<[field |-> "time", error |-> "Please select a time"]>>
                     ELSE <<>>)
  IN IF all = <<>> THEN <<>> ELSE <<Head(all)>>

(* handleBookingSubmit, lines 825-843: the errors reported, in order: one *)
(* under each required field that fails, then the two toasts              *)
submitErrors(form, st) ==
  fieldErrors(requiredFields(form, st))
    \o (IF ~truthy(st.selectedDate)
          THEN <<[field |-> "date", error |-> "Please select a date"]>>
          ELSE <<>>)
    \o (IF ~truthy(st.selectedTime)
          THEN <<[field |-> "time", error |-> "Please select a time"]>>
          ELSE <<>>)

(* handleBookingSubmit, lines 825-847: isValid *)
isValid(form, st) ==
  /\ \A i \in DOMAIN requiredFields(form, st) :
       validateField(requiredFields(form, st)[i])
  /\ truthy(st.selectedDate)
  /\ truthy(st.selectedTime)

(* Mutant of depositOf: the minimum is not applied *)
depositOfNoMinimum(total) == (total * DEPOSIT_PERCENT) \div 100

(* Mutant of depositOf: the percentage taken as a whole number, 35 for 0.35 *)
depositOfWholePercent(total) == MaxOf(total * DEPOSIT_PERCENT, Cents(DEPOSIT_MIN))

(* handleBookingSubmit, lines 849-854 *)
depositOf(total) ==
  MaxOf((total * DEPOSIT_PERCENT) \div 100, Cents(DEPOSIT_MIN))

(* handleBookingSubmit, lines 856-870: bookingData *)
bookingData(form, st) ==
  LET service == findService(st.selectedService)
      total == Cents(service.price)
  IN [serviceId |-> service.id,
      serviceTitle |-> service.title,
      date |-> st.selectedDate,
      time |-> st.selectedTime,
      customer |-> [name |-> form.name, phone |-> form.phone, email |-> form.email],
      notes |-> "",
      depositPercent |-> DEPOSIT_PERCENT,
      amountDue |-> total,
      depositAmount |-> depositOf(total)]

-----------------------------------------------------------------------------
(* Client: the mock gateway over localStorage (assets/app.js) *)

mockBookingId(t) == "booking-" \o ToString(t)

(* Mutant of newBooking: booking.status = booking.status || 'deposit_pending' *)
newBookingKeepsStatus(body, t) ==
  Assign(Assign(Assign(body, "id", mockBookingId(t)), "status",
                IF "status" \in DOMAIN body THEN body.status ELSE "deposit_pending"),
         "createdAt", t)

(* POST /api/bookings: the booking as stored *)
newBooking(body, t) ==
  Assign(Assign(Assign(body, "id", mockBookingId(t)), "status", "deposit_pending"),
         "createdAt", t)

(* Mutant of postBookingsStore: the new booking is saved over the list *)
postBookingsStoreOverwrite(bookings, body, t) == <<newBooking(body, t)>>

(* POST /api/bookings: the stored list afterwards *)
postBookingsStore(bookings, body, t) == Append(bookings, newBooking(body, t))

(* POST /api/bookings: the response *)
postBookingsResponse(body, t) ==
  LET booking == newBooking(body, t) IN
  [bookingId |-> booking.id,
   status |-> "deposit_pending",
   amountDue |-> booking.amountDue,
   depositAmount |-> booking.depositAmount,
   clientSecret |-> "mock_client_secret_" \o booking.id]

parseHour(time) == CHOOSE h \in 0..23 : slotTime(h) = time

formatTimeLabel(time) ==
  LET hours == parseHour(time)
      period == IF hours >= 12 THEN "PM" ELSE "AM"
      displayHours == IF hours > 12 THEN hours - 12 ELSE (IF hours = 0 THEN 12 ELSE hours)
  IN ToString(displayHours) \o ":00 " \o period

-----------------------------------------------------------------------------
(* Client: time restrictions of a service (assets/app.js) *)

LowerCase ==
  << "a", "b", "c", "d", "e", "f", "g", "h", "i", "j", "k", "l", "m",
     "n", "o", "p", "q", "r", "s", "t", "u", "v", "w", "x", "y", "z" >>

UpperCase ==
  << "A", "B", "C", "D", "E", "F", "G", "H", "I", "J", "K", "L", "M",
     "N", "O", "P", "Q", "R", "S", "T", "U", "V", "W", "X", "Y", "Z" >>

(* String.prototype.toUpperCase on text of ASCII characters *)
toUpperCase(s) ==
  [k \in DOMAIN s |->
     IF \E i \in DOMAIN LowerCase : LowerCase[i] = s[k]
       THEN UpperCase[CHOOSE i \in DOMAIN LowerCase : LowerCase[i] = s[k]]
       ELSE s[k]]

(* String.prototype.includes *)
includes(s, sub) ==
  \E i \in 1..(Len(s) - Len(sub) + 1) : SubSeq(s, i, i + Len(sub) - 1) = sub

(* the phrase looked for in a note *)
DoNotBookAfter ==
  <<"D", "O", " ", "N", "O", "T", " ", "B", "O", "O", "K", " ", "A", "F",
    "T", "E", "R" >>

(* \d+ from position i takes the whole run of digits that starts there *)
digitRunEnd(s, i) ==
  CHOOSE j \in i..Len(s) :
    /\ \A k \in i..j : IsDigit(s[k])
    /\ (j = Len(s) \/ ~IsDigit(s[j + 1]))

(* /(\d+)(AM|PM)/i matches s from position i *)
matchesAt(s, i) ==
  /\ IsDigit(s[i])
  /\ LET j == digitRunEnd(s, i) IN
       /\ j + 2 <= Len(s)
       /\ toUpperCase(SubSeq(s, j + 1, j + 2)) \in {<<"A", "M">>, <<"P", "M">>}

(* restriction.match(/(\d+)(AM|PM)/i): the leftmost match, its two groups *)
regexMatch(s) ==
  IF \E i \in DOMAIN s : matchesAt(s, i)
    THEN LET i == CHOOSE k \in DOMAIN s :
                    /\ matchesAt(s, k)
                    /\ \A m \in 1..(k - 1) : ~matchesAt(s, m)
             j == digitRunEnd(s, i)
         IN [found |-> TRUE, digits |-> SubSeq(s, i, j),
             period |-> SubSeq(s, j + 1, j + 2)]
    ELSE [found |-> FALSE, digits |-> <<>>, period |-> <<>>]

DigitChars == << "0", "1", "2", "3", "4", "5", "6", "7", "8", "9" >>

(* parseInt of a run of decimal digits *)
RECURSIVE parseInt(_)
parseInt(digits) ==
  IF digits = <<>> THEN 0
  ELSE 10 * parseInt(SubSeq(digits, 1, Len(digits) - 1))
       + (CHOOSE v \in 0..9 : DigitChars[v + 1] = digits[Len(digits)])

(* Mutant of convertHour: 12 is not treated apart, 12PM is 24 and 12AM 12 *)
convertHourTwelveNotSpecial(hours, period) ==
  IF period = <<"P", "M">> THEN hours + 12 ELSE hours

(* parseTimeRestriction, lines 120-123: hours on the 24-hour clock *)
convertHour(hours, period) ==
  LET afterPM == IF period = <<"P", "M">> /\ hours # 12 THEN hours + 12 ELSE hours
  IN IF period = <<"A", "M">> /\ afterPM = 12 THEN 0 ELSE afterPM

(* parseTimeRestriction returning null *)
NoRestriction == <<>>

(* parseTimeRestriction(notes), for an array of strings: <<hours>>, or    *)
(* NoRestriction for null                                                 *)
parseTimeRestriction(notes) ==
  IF ~\E i \in DOMAIN notes : includes(toUpperCase(notes[i]), DoNotBookAfter)
    THEN NoRestriction
    ELSE LET first == CHOOSE i \in DOMAIN notes :
                        /\ includes(toUpperCase(notes[i]), DoNotBookAfter)
                        /\ \A m \in 1..(i - 1) :
                             ~includes(toUpperCase(notes[m]), DoNotBookAfter)
             match == regexMatch(notes[first])
         IN IF ~match.found
              THEN NoRestriction
              ELSE <<convertHour(parseInt(match.digits), toUpperCase(match.period))>>

(* Mutant of violatesTimeRestriction: the restriction hour itself is flagged *)
violatesTimeRestrictionAtHour(service, timeString) ==
  LET maxHour == parseTimeRestriction(service.notes) IN
  IF maxHour = NoRestriction THEN FALSE ELSE parseHour(timeString) >= maxHour[1]

(* violatesTimeRestriction(service, timeString) *)
violatesTimeRestriction(service, timeString) ==
  LET maxHour == parseTimeRestriction(service.notes) IN
  IF maxHour = NoRestriction THEN FALSE ELSE parseHour(timeString) > maxHour[1]

-----------------------------------------------------------------------------
(* Client: availability (assets/app.js) *)

(* Mutant of bookedTimes: only bookings still awaiting their deposit count *)
bookedTimesPendingOnly(bookings, dateString) ==
  {bookings[i].time : i \in {k \in DOMAIN bookings :
     bookings[k].date = dateString /\ bookings[k].status = "deposit_pending"}}

(* bookings.filter(b => b.date === dateString).map(b => b.time) *)
bookedTimes(bookings, dateString) ==
  {bookings[i].time : i \in {k \in DOMAIN bookings : bookings[k].date = dateString}}

(* Mutant of generateTimeSlots: the slots array outlives the call, so a *)
(* query made right after another one adds its slots to the earlier ones *)
generateTimeSlotsSharedArray(bookings, dateString) ==
  LET fresh == [n \in 1..(endHour - startHour) |->
                  LET time == slotTime(startHour + n - 1) IN
                  [time |-> time,
                   available |-> time \notin bookedTimes(bookings, dateString),
                   label |-> formatTimeLabel(time)]]
  IN [date |-> dateString,
      slots |-> IF event.op = "selectDate"
                  THEN event.result.slots \o fresh ELSE fresh]

(* Mutant of generateTimeSlots: the loop runs while hour <= endHour *)
generateTimeSlotsInclusive(bookings, dateString) ==
  [date |-> dateString,
   slots |-> [n \in 1..(endHour - startHour + 1) |->
                LET time == slotTime(startHour + n - 1) IN
                [time |-> time,
                 available |-> time \notin bookedTimes(bookings, dateString),
                 label |-> formatTimeLabel(time)]]]

(* generateTimeSlots(dateString): GET /api/availability?date= *)
generateTimeSlots(bookings, dateString) ==
  [date |-> dateString,
   slots |-> [n \in 1..(endHour - startHour) |->
                LET time == slotTime(startHour + n - 1) IN
                [time |-> time,
                 available |-> time \notin bookedTimes(bookings, dateString),
                 label |-> formatTimeLabel(time)]]]

(* violatesTimeRestriction(service, time) for every catalog service and *)
(* time of day on the hour                                              *)
catalogViolations ==
  [id \in ServiceIds |->
     [time \in {slotTime(h) : h \in 0..23} |->
        violatesTimeRestriction(findService(id), time)]]

(* populateTimeSlots, lines 736-741: the warning put after an option's label *)
optionWarning(selectedService, time) ==
  /\ selectedService # "null"
  /\ catalogViolations[selectedService][time]

(* Mutant of populateTimeSlots: a slot that violates the restriction is *)
(* left out of the dropdown                                              *)
RECURSIVE populateTimeSlotsEnforced(_, _)
populateTimeSlotsEnforced(slots, selectedService) ==
  IF slots = <<>> THEN <<>>
  ELSE IF Head(slots).available /\ ~optionWarning(selectedService, Head(slots).time)
    THEN <<[value |-> Head(slots).time, warning |-> FALSE]>>
         \o populateTimeSlotsEnforced(Tail(slots), selectedService)
    ELSE populateTimeSlotsEnforced(Tail(slots), selectedService)

(* populateTimeSlots: the options of the time dropdown, with STATE.selectedService *)
RECURSIVE populateTimeSlots(_, _)
populateTimeSlots(slots, selectedService) ==
  IF slots = <<>> THEN <<>>
  ELSE IF Head(slots).available
    THEN <<[value |-> Head(slots).time,
            warning |-> optionWarning(selectedService, Head(slots).time)]>>
         \o populateTimeSlots(Tail(slots), selectedService)
    ELSE populateTimeSlots(Tail(slots), selectedService)

(* renderCalendar: the dates whose button is enabled *)
calendarEnabled(dateString) ==
  \A i \in DOMAIN sb_blackout_dates : sb_blackout_dates[i] # dateString

-----------------------------------------------------------------------------
(* Admin: the mock gateway over localStorage (assets/admin.js) *)

(* Mutant of patchBookingStore: bookings[index] = updates *)
patchBookingStoreNoSpread(bookings, id, updates) ==
  LET index == findIndex(bookings, id) IN
  IF index # 0
    THEN [bookings EXCEPT ![index] = Assign(updates, "id", id)]
    ELSE bookings

(* Mutant of patchBookingStore: the updated list is not saved *)
patchBookingStoreNotSaved(bookings, id, updates) == bookings

(* PATCH /api/bookings/:id: the stored list afterwards (unchanged when the *)
(* id is not found and the request is rejected)                            *)
patchBookingStore(bookings, id, updates) ==
  LET index == findIndex(bookings, id) IN
  IF index # 0
    THEN [bookings EXCEPT ![index] = Spread(bookings[index], updates)]
    ELSE bookings

(* PATCH /api/bookings/:id: resolved or rejected *)
patchBookingResult(bookings, id) ==
  IF findIndex(bookings, id) # 0 THEN "ok" ELSE "Booking not found"

mockBlockId(t) == "block-" \o ToString(t)

(* POST /api/availability/blocks: the stored list afterwards *)
postBlockStore(blocks, body, t) == Append(blocks, Assign(body, "id", mockBlockId(t)))

(* deleteBlock: blocks.filter(b => b.id !== blockId) *)
RECURSIVE withoutBlock(_, _)
withoutBlock(blocks, id) ==
  IF blocks = <<>> THEN <<>>
  ELSE IF Head(blocks).id # id
    THEN <<Head(blocks)>> \o withoutBlock(Tail(blocks), id)
    ELSE withoutBlock(Tail(blocks), id)

(* openBookingDrawer, Actions: the status buttons rendered for a booking *)
drawerActions(status) ==
  (IF status = "deposit_pending" THEN {"deposit_paid"} ELSE {})
  \cup (IF status = "deposit_paid" THEN {"completed"} ELSE {})
  \cup (IF status # "cancelled" /\ status # "no_show"
          THEN {"cancelled", "no_show"} ELSE {})

(* updateBookingStatus, "Update local state": STATE.bookings afterwards *)
localStatusUpdate(bookings, id, newStatus) ==
  LET index == findIndex(bookings, id) IN
  IF index # 0
    THEN [bookings EXCEPT ![index] = Assign(bookings[index], "status", newStatus)]
    ELSE bookings

-----------------------------------------------------------------------------
(* Client: the calendar widget (assets/app.js). The month shown is      *)
(* November 2025; a Date is a local calendar day and hour, the browser's *)
(* time zone is given in hours east of UTC (-5: Toronto, 0, 1)           *)

(* the days of the month the model renders *)
CalendarDays == 14..18

(* the local calendar day at clock reading t: the first reading is on *)
(* day 14, distinct readings of the model fall on successive days      *)
localDay(t) == 14 + t

(* "YYYY-MM-DD" of a day of the month shown *)
dateText(day) == "2025-11-" \o pad2(day)

(* formatDate(date): date.toISOString().split('T')[0], the UTC calendar *)
(* day of the instant that is hour o'clock on the local day             *)
formatDate(day, hour, timezoneOffset) ==
  LET utcHour == hour - timezoneOffset IN
  dateText(IF utcHour < 0 THEN day - 1
           ELSE IF utcHour > 23 THEN day + 1 ELSE day)

(* renderCalendar at clock reading t: the buttons of the month; date =  *)
(* new Date(year, month, day) is local midnight, today is local midnight *)
(* of the current day                                                    *)
renderCalendar(t, timezoneOffset, blackoutDates) ==
  [today |-> localDay(t),
   timezoneOffset |-> timezoneOffset,
   buttons |->
     [day \in CalendarDays |->
        LET dateString == formatDate(day, 0, timezoneOffset)
            isPast == day < localDay(t)
            isBlackout == \E i \in DOMAIN blackoutDates :
                            blackoutDates[i] = dateString
        IN [date |-> dateString, disabled |-> isPast \/ isBlackout]]]

-----------------------------------------------------------------------------
(* Initial state: both pages loaded, nothing stored *)

ClientInit ==
  [selectedService |-> "null",
   selectedDate |-> "null",
   selectedTime |-> "null",
   timeOptions |-> <<>>,
   submitDisabled |-> FALSE,
   closeTimer |-> FALSE,
   availabilityInFlight |-> <<>>,
   bookingsInFlight |-> <<>>,
   calendar |-> renderCalendar(0, -5, BlackoutDates)]

(* the booking drawer when it is not shown *)
ClosedDrawer == [open |-> FALSE, id |-> "null", status |-> "null"]

AdminInit ==
  [isAuthenticated |-> FALSE,
   token |-> FALSE,
   bookings |-> <<>>,
   blocks |-> <<>>,
   settings |-> <<>>,
   drawer |-> ClosedDrawer]

(* event after a handler that makes no gateway call and returns nothing *)
Quiet ==
  [op |-> "none", who |-> "none", input |-> <<>>, calls |-> <<>>,
   outcome |-> "none", result |-> <<>>]

Init ==
  /\ sb_bookings = <<>>
  /\ sb_blocks = <<>>
  /\ sb_blackout_dates = BlackoutDates
  /\ sb_settings = <<>>
  /\ now = 0
  /\ client = [s \in Tabs |-> ClientInit]
  /\ admin = AdminInit
  /\ event = Quiet

-----------------------------------------------------------------------------
(* Client handlers (assets/app.js) *)

(* Date.now() read by a handler: time has not gone back since the last   *)
(* reading; MaxClock bounds the readings that differ                      *)
ClockReads == now..(IF now < MaxClock THEN now + 1 ELSE now)

(* "Book" on a service card: openBookingModal(serviceId) *)
openBookingModal(s, serviceId) ==
  /\ client' = [client EXCEPT
       ![s].selectedService =
          IF serviceId # "null" /\ serviceId \in ServiceIds
            THEN serviceId ELSE @]
  /\ event' = Quiet
  /\ UNCHANGED <<sb_bookings, sb_blocks, sb_blackout_dates, now, admin, sb_settings>>

(* closeBookingModal: STATE cleared, form.reset() *)
closedModal(st) ==
  [st EXCEPT !.selectedService = "null",
             !.selectedDate = "null",
             !.selectedTime = "null"]

closeBookingModal(s) ==
  /\ client' = [client EXCEPT ![s] = closedModal(@)]
  /\ event' = Quiet
  /\ UNCHANGED <<sb_bookings, sb_blocks, sb_blackout_dates, now, admin, sb_settings>>

(* change of the service <select> *)
updateServiceDetails(s, serviceId) ==
  /\ client' = [client EXCEPT ![s].selectedService =
                  IF serviceId = "" THEN "null" ELSE serviceId]
  /\ event' = Quiet
  /\ UNCHANGED <<sb_bookings, sb_blocks, sb_blackout_dates, now, admin, sb_settings>>

(* click on an enabled calendar date *)
selectDate(s, dateString) ==
  /\ calendarEnabled(dateString)
  /\ LET data == generateTimeSlots(sb_bookings, dateString) IN
       /\ client' = [client EXCEPT
            ![s].selectedDate = dateString,
            ![s].selectedTime = "null",
            ![s].timeOptions = populateTimeSlots(data.slots, client[s].selectedService)]
       /\ event' = [op |-> "selectDate", who |-> s, input |-> dateString,
                    calls |-> <<"GET /api/availability">>,
                    outcome |-> "ok", result |-> data]
  /\ UNCHANGED <<sb_bookings, sb_blocks, sb_blackout_dates, now, admin, sb_settings>>

(* change of the time <select> to one of its options *)
timeChange(s, time) ==
  /\ \E i \in DOMAIN client[s].timeOptions : client[s].timeOptions[i].value = time
  /\ client' = [client EXCEPT ![s].selectedTime = time]
  /\ event' = Quiet
  /\ UNCHANGED <<sb_bookings, sb_blocks, sb_blackout_dates, now, admin, sb_settings>>

submitInput(s, form) ==
  [form |-> form,
   service |-> client[s].selectedService,
   date |-> client[s].selectedDate,
   time |-> client[s].selectedTime]

(* submit of the booking form *)
handleBookingSubmit(s, form) ==
  /\ ~client[s].submitDisabled
  /\ IF ~isValid(form, client[s])
       THEN /\ event' = [op |-> "handleBookingSubmit", who |-> s,
                         input |-> submitInput(s, form),
                         calls |-> <<>>, outcome |-> "invalid",
                         result |-> submitErrors(form, client[s])]
            /\ UNCHANGED <<sb_bookings, client, now, sb_settings>>
       ELSE /\ Len(sb_bookings) < MaxBookings
            /\ \E t \in ClockReads :
                 LET body == bookingData(form, client[s]) IN
                 /\ now' = t
                 /\ sb_bookings' = postBookingsStore(sb_bookings, body, t)
                 /\ event' = [op |-> "handleBookingSubmit", who |-> s,
                              input |-> submitInput(s, form),
                              calls |-> <<"POST /api/bookings">>,
                              outcome |-> "ok",
                              result |-> postBookingsResponse(body, t)]
            /\ client' = [client EXCEPT ![s].submitDisabled = TRUE,
                                        ![s].closeTimer = TRUE]
  /\ UNCHANGED <<sb_blocks, sb_blackout_dates, admin, sb_settings>>

(* the setTimeout(..., 1500) callback of a successful submission *)
bookingTimer(s) ==
  /\ client[s].closeTimer
  /\ client' = [client EXCEPT ![s] = [closedModal(@) EXCEPT !.closeTimer = FALSE]]
  /\ event' = Quiet
  /\ UNCHANGED <<sb_bookings, sb_blocks, sb_blackout_dates, now, admin, sb_settings>>

(* the client page is loaded again in tab s: init() *)
clientInit(s) ==
  /\ client[s] # ClientInit
  /\ client' = [client EXCEPT ![s] = ClientInit]
  /\ event' = Quiet
  /\ UNCHANGED <<sb_bookings, sb_blocks, sb_blackout_dates, now, admin, sb_settings>>

-----------------------------------------------------------------------------
(* Client handlers with a backend configured (CONFIG.API_BASE_URL set):  *)
(* apiRequest awaits fetch, so a handler is suspended at its await and   *)
(* other handlers of the page run before its response arrives            *)

RemoveAt(seq, i) == SubSeq(seq, 1, i - 1) \o SubSeq(seq, i + 1, Len(seq))

(* selectDate up to its await: the date is selected, the time <select> *)
(* shows "Loading..." and the availability request is sent             *)
selectDateRequest(s, dateString) ==
  /\ calendarEnabled(dateString)
  /\ Len(client[s].availabilityInFlight) < MaxInFlight
  /\ client' = [client EXCEPT
       ![s].selectedDate = dateString,
       ![s].selectedTime = "null",
       ![s].timeOptions = <<>>,
       ![s].availabilityInFlight = Append(@, dateString)]
  /\ event' = [op |-> "selectDateRequest", who |-> s, input |-> dateString,
               calls |-> <<"GET /api/availability">>,
               outcome |-> "pending", result |-> <<>>]
  /\ UNCHANGED <<sb_bookings, sb_blocks, sb_blackout_dates, now, admin, sb_settings>>

(* selectDate from its await on, for the i-th request in flight: the     *)
(* fetch has failed, apiRequest answers from localStorage and            *)
(* populateTimeSlots(data.slots) fills the time <select>                 *)
availabilityResponse(s, i) ==
  /\ i \in DOMAIN client[s].availabilityInFlight
  /\ LET dateString == client[s].availabilityInFlight[i]
         data == generateTimeSlots(sb_bookings, dateString) IN
       /\ client' = [client EXCEPT
            ![s].timeOptions = populateTimeSlots(data.slots, client[s].selectedService),
            ![s].availabilityInFlight = RemoveAt(@, i)]
       /\ event' = [op |-> "availabilityResponse", who |-> s, input |-> dateString,
                    calls |-> <<"GET /api/availability">>,
                    outcome |-> "ok", result |-> data]
  /\ UNCHANGED <<sb_bookings, sb_blocks, sb_blackout_dates, now, admin, sb_settings>>

(* Mutant of submitting: the submit button is left enabled *)
submittingNotDisabled(st, body) ==
  [st EXCEPT !.bookingsInFlight = Append(@, body)]

(* handleBookingSubmit, "Submit booking" up to the await: the button is *)
(* disabled and the POST is sent                                         *)
submitting(st, body) ==
  [st EXCEPT !.submitDisabled = TRUE,
             !.bookingsInFlight = Append(@, body)]

(* submit of the booking form, up to the await of apiRequest; a disabled *)
(* submit button submits nothing                                          *)
submitBooking(s, form) ==
  /\ ~client[s].submitDisabled
  /\ IF ~isValid(form, client[s])
       THEN /\ event' = [op |-> "submitBooking", who |-> s,
                         input |-> submitInput(s, form),
                         calls |-> <<>>, outcome |-> "invalid",
                         result |-> submitErrors(form, client[s])]
            /\ UNCHANGED client
       ELSE /\ Len(sb_bookings) + Len(client[s].bookingsInFlight) < MaxBookings
            /\ Len(client[s].bookingsInFlight) < MaxInFlight
            /\ client' = [client EXCEPT
                 ![s] = submitting(@, bookingData(form, client[s]))]
            /\ event' = [op |-> "submitBooking", who |-> s,
                         input |-> submitInput(s, form),
                         calls |-> <<"POST /api/bookings">>,
                         outcome |-> "pending", result |-> <<>>]
  /\ UNCHANGED <<sb_bookings, sb_blocks, sb_blackout_dates, now, admin, sb_settings>>

(* handleBookingSubmit from its await on, for the i-th POST in flight:   *)
(* the backend answers (remote = "ok"), or the fetch fails and           *)
(* mockApiRequest stores the booking, or storing it throws and the       *)
(* catch branch enables the button again; storage is what                *)
(* localStorage.setItem does ("ok" or "QuotaExceededError")              *)
bookingResponse(s, i, remote, storage) ==
  /\ i \in DOMAIN client[s].bookingsInFlight
  /\ LET body == client[s].bookingsInFlight[i] IN
     IF remote = "ok"
       THEN /\ client' = [client EXCEPT ![s].closeTimer = TRUE,
                                        ![s].bookingsInFlight = RemoveAt(@, i)]
            /\ event' = [op |-> "bookingResponse", who |-> s, input |-> body,
                         calls |-> <<"fetch">>,
                         outcome |-> "ok", result |-> <<>>]
            /\ UNCHANGED <<sb_bookings, now>>
     ELSE IF storage = "ok"
       THEN \E t \in ClockReads :
            /\ now' = t
            /\ sb_bookings' = postBookingsStore(sb_bookings, body, t)
            /\ client' = [client EXCEPT ![s].closeTimer = TRUE,
                                        ![s].bookingsInFlight = RemoveAt(@, i)]
            /\ event' = [op |-> "bookingResponse", who |-> s, input |-> body,
                         calls |-> <<"fetch", "mockApiRequest">>,
                         outcome |-> "ok",
                         result |-> postBookingsResponse(body, t)]
     ELSE /\ client' = [client EXCEPT ![s].submitDisabled = FALSE,
                                      ![s].bookingsInFlight = RemoveAt(@, i)]
          /\ event' = [op |-> "bookingResponse", who |-> s, input |-> body,
                       calls |-> <<"fetch", "mockApiRequest">>,
                       outcome |-> "error", result |-> <<>>]
          /\ UNCHANGED <<sb_bookings, now>>
  /\ UNCHANGED <<sb_blocks, sb_blackout_dates, admin, sb_settings>>

-----------------------------------------------------------------------------
(* Client: clicks on the rendered calendar *)

(* click on the button of a day of the calendar as it was last rendered: *)
(* the listener calls selectDate(btn.dataset.date), which renders the    *)
(* calendar again and loads the time slots                               *)
calendarDateClick(s, day) ==
  /\ day \in CalendarDays
  /\ ~client[s].calendar.buttons[day].disabled
  /\ \E t \in ClockReads :
       LET dateString == client[s].calendar.buttons[day].date
           data == generateTimeSlots(sb_bookings, dateString) IN
       /\ now' = t
       /\ client' = [client EXCEPT
            ![s].selectedDate = dateString,
            ![s].selectedTime = "null",
            ![s].timeOptions = populateTimeSlots(data.slots, client[s].selectedService),
            ![s].calendar = renderCalendar(t, @.timezoneOffset, sb_blackout_dates)]
       /\ event' = [op |-> "selectDate", who |-> s, input |-> dateString,
                    calls |-> <<"GET /api/availability">>,
                    outcome |-> "ok", result |-> data]
  /\ UNCHANGED <<sb_bookings, sb_blocks, sb_blackout_dates, admin, sb_settings>>

-----------------------------------------------------------------------------
(* Admin handlers (assets/admin.js) *)

(* getDefaultSettings: the fields the deposit and the opening hours have *)
getDefaultSettings ==
  [depositPercent |-> 35, depositMin |-> 15,
   hoursOpen |-> "07:00", hoursClose |-> "19:00"]

(* loadAllData: STATE.bookings, STATE.blocks and STATE.settings from the *)
(* gateway; GET /api/settings answers the stored settings or the defaults *)
loadedAdmin(st) ==
  [st EXCEPT !.bookings = sb_bookings, !.blocks = sb_blocks,
             !.settings = <<IF sb_settings # <<>> THEN sb_settings[1]
                                                 ELSE getDefaultSettings>>]

(* submit of the login form; mock mode accepts any credentials *)
handleLogin ==
  /\ ~admin.isAuthenticated
  /\ admin' = [loadedAdmin(admin) EXCEPT !.isAuthenticated = TRUE, !.token = TRUE]
  /\ event' = [op |-> "handleLogin", who |-> "admin", input |-> <<>>,
               calls |-> <<"POST /api/auth/login", "GET /api/bookings",
                           "GET /api/availability/blocks">>,
               outcome |-> "ok", result |-> <<>>]
  /\ UNCHANGED <<sb_bookings, sb_blocks, sb_blackout_dates, now, client, sb_settings>>

(* the admin page is loaded again with the session token present: init() *)
adminInit ==
  /\ admin.token
  /\ admin' = [loadedAdmin(AdminInit) EXCEPT !.isAuthenticated = TRUE, !.token = TRUE]
  /\ admin' # admin
  /\ event' = [op |-> "adminInit", who |-> "admin", input |-> <<>>,
               calls |-> <<"GET /api/bookings", "GET /api/availability/blocks">>,
               outcome |-> "ok", result |-> <<>>]
  /\ UNCHANGED <<sb_bookings, sb_blocks, sb_blackout_dates, now, client, sb_settings>>

(* click on a row of the bookings table *)
openBookingDrawer(bookingId) ==
  /\ admin.isAuthenticated
  /\ findIndex(admin.bookings, bookingId) # 0
  /\ LET booking == admin.bookings[findIndex(admin.bookings, bookingId)] IN
       admin' = [admin EXCEPT !.drawer =
                   [open |-> TRUE, id |-> booking.id, status |-> booking.status]]
  /\ event' = Quiet
  /\ UNCHANGED <<sb_bookings, sb_blocks, sb_blackout_dates, now, client, sb_settings>>

closeBookingDrawer ==
  /\ admin.drawer.open
  /\ admin' = [admin EXCEPT !.drawer = ClosedDrawer]
  /\ event' = Quiet
  /\ UNCHANGED <<sb_bookings, sb_blocks, sb_blackout_dates, now, client, sb_settings>>

(* the status a stored booking has, "none" when the id is not stored *)
storedStatus(bookings, id) ==
  IF findIndex(bookings, id) # 0 THEN bookings[findIndex(bookings, id)].status ELSE "none"

(* click on a status button of the open booking drawer *)
updateBookingStatus(bookingId, newStatus) ==
  /\ admin.isAuthenticated
  /\ admin.drawer.open
  /\ admin.drawer.id = bookingId
  /\ newStatus \in drawerActions(admin.drawer.status)
  /\ LET result == patchBookingResult(sb_bookings, bookingId) IN
       /\ sb_bookings' = patchBookingStore(sb_bookings, bookingId, [status |-> newStatus])
       /\ admin' = IF result = "ok"
                     THEN [admin EXCEPT
                             !.bookings = localStatusUpdate(@, bookingId, newStatus),
                             !.drawer = ClosedDrawer]
                     ELSE admin
       /\ event' = [op |-> "updateBookingStatus", who |-> "admin",
                    input |-> [id |-> bookingId,
                               from |-> storedStatus(sb_bookings, bookingId),
                               to |-> newStatus],
                    calls |-> <<"PATCH /api/bookings/:id">>,
                    outcome |-> result, result |-> <<>>]
  /\ UNCHANGED <<sb_blocks, sb_blackout_dates, now, client, sb_settings>>

(* "Add Block": prompt for a date, POST, reload the blocks *)
addBlock(date) ==
  /\ admin.isAuthenticated
  /\ Len(sb_blocks) < MaxBlocks
  /\ \E t \in ClockReads :
       LET body == [date |-> date, type |-> "blackout", notes |-> ""] IN
       /\ now' = t
       /\ sb_blocks' = postBlockStore(sb_blocks, body, t)
       /\ event' = [op |-> "addBlock", who |-> "admin", input |-> date,
                    calls |-> <<"POST /api/availability/blocks",
                                "GET /api/availability/blocks">>,
                    outcome |-> "ok",
                    result |-> [block |-> sb_blocks'[Len(sb_blocks')],
                                blocksBefore |-> sb_blocks]]
  /\ admin' = [admin EXCEPT !.blocks = sb_blocks']
  /\ UNCHANGED <<sb_bookings, sb_blackout_dates, client, sb_settings>>

(* "Remove" on a row of the blocks table, confirmed *)
deleteBlock(id) ==
  /\ admin.isAuthenticated
  /\ \E i \in DOMAIN admin.blocks : admin.blocks[i].id = id
  /\ sb_blocks' = withoutBlock(sb_blocks, id)
  /\ admin' = [admin EXCEPT !.blocks = sb_blocks']
  /\ event' = [op |-> "deleteBlock", who |-> "admin", input |-> id,
               calls |-> <<>>, outcome |-> "ok", result |-> <<>>]
  /\ UNCHANGED <<sb_bookings, sb_blackout_dates, now, client, sb_settings>>

(* submit of the settings form: PUT /api/settings *)
saveSettings(settings) ==
  /\ admin.isAuthenticated
  /\ sb_settings' = <<settings>>
  /\ admin' = [admin EXCEPT !.settings = <<settings>>]
  /\ event' = [op |-> "saveSettings", who |-> "admin", input |-> settings,
               calls |-> <<"PUT /api/settings">>, outcome |-> "ok", result |-> <<>>]
  /\ UNCHANGED <<sb_bookings, sb_blocks, sb_blackout_dates, now, client>>

-----------------------------------------------------------------------------
(* Specifications: the handlers, with the inputs each one draws from *)

ValidForm == [name |-> NameJane, phone |-> PhoneFormatted, email |-> EmailJane]

PickTimes == {slotTime(h) : h \in {9, 10}}

ClientNext(s, forms, services, dates, times) ==
  \/ \E serviceId \in services \cup {"null"} : openBookingModal(s, serviceId)
  \/ closeBookingModal(s)
  \/ \E serviceId \in services \cup {""} : updateServiceDetails(s, serviceId)
  \/ \E d \in dates : selectDate(s, d)
  \/ \E t \in times : timeChange(s, t)
  \/ \E form \in forms : handleBookingSubmit(s, form)
  \/ bookingTimer(s)
  \/ clientInit(s)

AdminSessionNext ==
  \/ handleLogin
  \/ adminInit

AdminBookingsNext ==
  \/ \E i \in DOMAIN admin.bookings : openBookingDrawer(admin.bookings[i].id)
  \/ closeBookingDrawer
  \/ \E st \in {"deposit_pending", "deposit_paid", "completed", "cancelled", "no_show"} :
       updateBookingStatus(admin.drawer.id, st)

AdminBlocksNext(dates) ==
  \/ \E d \in dates : addBlock(d)
  \/ \E i \in DOMAIN admin.blocks : deleteBlock(admin.blocks[i].id)

Fulani == "smedium-bohemian-fulani"

(* One client tab and the admin's bookings panel *)
Next ==
  \/ ClientNext("tabA", {ValidForm}, {Fulani}, {"2025-11-15", "2025-11-17"}, PickTimes)
  \/ AdminSessionNext
  \/ AdminBookingsNext

Spec == Init /\ [][Next]_vars

(* One client tab and the admin's calendar panel *)
NextBlocks ==
  \/ ClientNext("tabA", {ValidForm}, {Fulani}, {"2025-11-15", "2025-11-17"}, {"09:00"})
  \/ AdminSessionNext
  \/ AdminBlocksNext({"2025-11-15", "2025-11-16"})

SpecBlocks == Init /\ [][NextBlocks]_vars

(* Two client tabs on the same store *)
NextTabs ==
  \/ \E s \in Tabs : ClientNext(s, {ValidForm}, {Fulani}, {"2025-11-15"}, {"09:00"})

SpecTabs == Init /\ [][NextTabs]_vars

(* One client tab booking any service of the catalog *)
NextDeposit ==
  \/ ClientNext("tabA", {ValidForm}, ServiceIds, {"2025-11-15"}, PickTimes)

SpecDeposit == Init /\ [][NextDeposit]_vars

(* One client tab; every sample typed into the form, at least one of the *)
(* three fields holding a valid value                                     *)
AllForms ==
  {form \in [name : NameSamples, phone : PhoneSamples, email : EmailSamples] :
     \/ form.name = ValidForm.name
     \/ form.phone = ValidForm.phone
     \/ form.email = ValidForm.email}

NextForm ==
  \/ ClientNext("tabA", AllForms, {Fulani}, {"2025-11-15"}, PickTimes)

SpecForm == Init /\ [][NextForm]_vars

(* The gateway's createBooking called with any request body *)
RawBodies ==
  LET base == {bookingData(ValidForm,
                 [selectedService |-> Fulani, selectedDate |-> d, selectedTime |-> t]) :
                 d \in {"2025-11-15", "2025-11-16"}, t \in PickTimes}
  IN base
     \cup {Assign(b, "status", st) : b \in base, st \in {"deposit_paid", "cancelled"}}
     \cup {Assign(b, "createdAt", 99) : b \in base}
     \cup {Assign(Assign(b, "status", "completed"), "id", "booking-x") : b \in base}

(* apiRequest('/api/bookings', {method: 'POST', body}) *)
createBooking(body) ==
  /\ Len(sb_bookings) < MaxBookings
  /\ \E t \in ClockReads :
       /\ now' = t
       /\ sb_bookings' = postBookingsStore(sb_bookings, body, t)
       /\ event' = [op |-> "createBooking", who |-> "gateway", input |-> body,
                    calls |-> <<"POST /api/bookings">>,
                    outcome |-> "ok",
                    result |-> postBookingsResponse(body, t)]
  /\ UNCHANGED <<sb_blocks, sb_blackout_dates, client, admin, sb_settings>>

NextGateway == \E body \in RawBodies : createBooking(body)

SpecGateway == Init /\ [][NextGateway]_vars

(* Notes of a service, as inputs of parseTimeRestriction *)
(* 'do not book after 1pm' *)
NoteLowerCase ==
  <<"d", "o", " ", "n", "o", "t", " ", "b", "o", "o", "k", " ", "a", "f",
    "t", "e", "r", " ", "1", "p", "m" >>

(* 'DO NOT BOOK AFTER noon' *)
NoteNoPattern ==
  <<"D", "O", " ", "N", "O", "T", " ", "B", "O", "O", "K", " ", "A", "F",
    "T", "E", "R", " ", "n", "o", "o", "n" >>

(* 'DO NOT BOOK AFTER 8 AM' *)
NoteSpacedPeriod ==
  <<"D", "O", " ", "N", "O", "T", " ", "B", "O", "O", "K", " ", "A", "F",
    "T", "E", "R", " ", "8", " ", "A", "M" >>

(* 'Opens 9AM. DO NOT BOOK AFTER 2PM' *)
NoteTimeBeforePhrase ==
  <<"O", "p", "e", "n", "s", " ", "9", "A", "M", ".", " ", "D", "O", " ",
    "N", "O", "T", " ", "B", "O", "O", "K", " ", "A", "F", "T", "E", "R",
    " ", "2", "P", "M" >>

(* 'From 6PM DO NOT BOOK AFTER dark' *)
NoteTimeOnlyBefore ==
  <<"F", "r", "o", "m", " ", "6", "P", "M", " ", "D", "O", " ", "N", "O",
    "T", " ", "B", "O", "O", "K", " ", "A", "F", "T", "E", "R", " ", "d",
    "a", "r", "k" >>

(* 'Arrive by 9AM' *)
NoteArriveBy ==
  <<"A", "r", "r", "i", "v", "e", " ", "b", "y", " ", "9", "A", "M" >>

(* nothing, or 'Please ' *)
NotePrefixes == {<<>>, <<"P", "l", "e", "a", "s", "e", " " >>}

RestrictionHours == {1, 8, 11, 12}

PeriodTexts == {<<"A", "M">>, <<"P", "M">>, <<"a", "m">>, <<"p", "m">>}

(* the decimal digits of h *)
RECURSIVE Decimal(_)
Decimal(h) ==
  IF h < 10 THEN <<DigitChars[h + 1]>>
  ELSE Decimal(h \div 10) \o <<DigitChars[(h % 10) + 1]>>

(* '<prefix>DO NOT BOOK AFTER <h><period>' *)
RestrictionNote(prefix, h, period) ==
  prefix \o DoNotBookAfter \o <<" ">> \o Decimal(h) \o period

RestrictionNotes ==
  {RestrictionNote(prefix, h, period) :
     prefix \in NotePrefixes, h \in RestrictionHours, period \in PeriodTexts}

OtherNotes ==
  {NoteSelect, NoteHairNotIncluded, NoteLowerCase, NoteNoPattern, NoteSpacedPeriod,
   NoteTimeBeforePhrase, NoteTimeOnlyBefore, NoteArriveBy}

PairNotes ==
  {NoteSelect, NoteArriveBy, NoteNoPattern, NoteTimeOnlyBefore, NoteLowerCase,
   NoteDoNotBookAfter8AM,
   RestrictionNote(<<>>, 12, <<"P", "M">>), RestrictionNote(<<>>, 12, <<"A", "M">>)}

NotesInputs ==
  {<<>>} \cup {<<n>> : n \in RestrictionNotes \cup OtherNotes}
         \cup {<<a, b>> : a \in PairNotes, b \in PairNotes}

InitRestriction ==
  /\ sb_bookings = <<>>
  /\ sb_blocks = <<>>
  /\ sb_blackout_dates = BlackoutDates
  /\ sb_settings = <<>>
  /\ now = 0
  /\ client = [s \in Tabs |-> ClientInit]
  /\ admin = AdminInit
  /\ event \in {[op |-> "ask", who |-> "client",
                  input |-> [notes |-> notes, time |-> slotTime(h)],
                  calls |-> <<>>, outcome |-> "none", result |-> <<>>] :
                   notes \in NotesInputs, h \in startHour..(endHour - 1)}

(* parseTimeRestriction(service.notes) *)
callParseTimeRestriction ==
  /\ event.op = "ask"
  /\ event' = [event EXCEPT !.op = "parseTimeRestriction",
                            !.outcome = "ok",
                            !.result = parseTimeRestriction(event.input.notes)]
  /\ UNCHANGED <<sb_bookings, sb_blocks, sb_blackout_dates, now, client, admin, sb_settings>>

(* violatesTimeRestriction(service, slot.time) *)
callViolatesTimeRestriction ==
  /\ event.op = "ask"
  /\ event' = [event EXCEPT !.op = "violatesTimeRestriction",
                            !.outcome = "ok",
                            !.result = violatesTimeRestriction(
                                         [notes |-> event.input.notes],
                                         event.input.time)]
  /\ UNCHANGED <<sb_bookings, sb_blocks, sb_blackout_dates, now, client, admin, sb_settings>>

NextRestriction ==
  \/ callParseTimeRestriction
  \/ callViolatesTimeRestriction

SpecRestriction == InitRestriction /\ [][NextRestriction]_vars

(* The gateway of either page with a backend configured or not *)

(* what the backend does with a request: answers 2xx with JSON, cannot be *)
(* reached, answers with another status, or answers 2xx without JSON      *)
RemoteFailures == {"network_error", "http_error", "bad_json"}

BackendUrl == "https://api.example.com"

(* mockApiRequest of the booking page: what it answers and the stored *)
(* bookings afterwards                                                 *)
mockApiRequest(request, bookings, t) ==
  IF request.endpoint = "/api/availability?date=" /\ request.method = "GET"
    THEN [outcome |-> "ok", result |-> generateTimeSlots(bookings, request.arg),
          bookings |-> bookings]
  ELSE IF request.endpoint = "/api/bookings" /\ request.method = "POST"
    THEN [outcome |-> "ok", result |-> postBookingsResponse(request.arg, t),
          bookings |-> postBookingsStore(bookings, request.arg, t)]
  ELSE [outcome |-> "error", result |-> "Endpoint not implemented in mock mode",
        bookings |-> bookings]

(* mockApiRequest of the admin page, for the bookings endpoints *)
adminMockApiRequest(request, bookings) ==
  IF request.endpoint = "/api/auth/login" /\ request.method = "POST"
    THEN [outcome |-> "ok", result |-> "accessToken", bookings |-> bookings]
  ELSE IF request.endpoint = "/api/bookings" /\ request.method = "GET"
    THEN [outcome |-> "ok", result |-> bookings, bookings |-> bookings]
  ELSE IF request.endpoint = "/api/bookings/" /\ request.method = "PATCH"
    THEN IF patchBookingResult(bookings, request.arg.id) = "ok"
           THEN [outcome |-> "ok", result |-> <<>>,
                 bookings |-> patchBookingStore(bookings, request.arg.id,
                                                [status |-> request.arg.status])]
           ELSE [outcome |-> "error", result |-> "Booking not found",
                 bookings |-> bookings]
  ELSE [outcome |-> "error", result |-> "Endpoint not implemented",
        bookings |-> bookings]

(* Mutant of apiRequest: a failed remote request is surfaced at once *)
apiRequestNoFallback(API_BASE_URL, remote, local) ==
  IF API_BASE_URL = ""
    THEN [calls |-> <<[transport |-> "local", outcome |-> local.outcome]>>,
          outcome |-> local.outcome, result |-> local.result]
  ELSE IF remote = "ok"
    THEN [calls |-> <<[transport |-> "remote", outcome |-> "ok"]>>,
          outcome |-> "ok", result |-> "response.json()"]
  ELSE [calls |-> <<[transport |-> "remote", outcome |-> remote]>>,
        outcome |-> "error", result |-> remote]

(* apiRequest(endpoint, options) of both pages: the transports tried in   *)
(* order and what the caller gets; local is what mockApiRequest does with *)
(* the request                                                            *)
apiRequest(API_BASE_URL, remote, local) ==
  IF API_BASE_URL = ""
    THEN [calls |-> <<[transport |-> "local", outcome |-> local.outcome]>>,
          outcome |-> local.outcome, result |-> local.result]
  ELSE IF remote = "ok"
    THEN [calls |-> <<[transport |-> "remote", outcome |-> "ok"]>>,
          outcome |-> "ok", result |-> "response.json()"]
  ELSE [calls |-> <<[transport |-> "remote", outcome |-> remote],
                   [transport |-> "local", outcome |-> local.outcome]>>,
        outcome |-> local.outcome, result |-> local.result]

usesLocal(answer) ==
  \E i \in DOMAIN answer.calls : answer.calls[i].transport = "local"

(* a request made through apiRequest by page who *)
gatewayRequest(who, request, deployment) ==
  /\ (request.method = "POST" => Len(sb_bookings) < MaxBookings)
  /\ \E t \in (IF request.method = "POST" THEN ClockReads ELSE {now}) :
       LET local == IF who = "client"
                      THEN mockApiRequest(request, sb_bookings, t)
                      ELSE adminMockApiRequest(request, sb_bookings)
           answer == apiRequest(deployment.API_BASE_URL, deployment.remote, local)
       IN /\ now' = IF usesLocal(answer) THEN t ELSE now
          /\ sb_bookings' = IF usesLocal(answer) THEN local.bookings ELSE sb_bookings
          /\ event' = [op |-> "apiRequest", who |-> who,
                       input |-> [request |-> request,
                                  API_BASE_URL |-> deployment.API_BASE_URL,
                                  remote |-> deployment.remote],
                       calls |-> answer.calls,
                       outcome |-> answer.outcome,
                       result |-> answer.result]
  /\ UNCHANGED <<sb_blocks, sb_blackout_dates, client, admin, sb_settings>>

(* the bookings a backend lists: the sample of the README *)
RemoteBookings ==
  <<[id |-> "booking-1234567890",
     serviceId |-> "smedium-bohemian-fulani",
     serviceTitle |-> "Smedium Bohemian Fulani",
     date |-> "2025-11-15",
     time |-> "09:00",
     customer |-> [name |-> NameJane, phone |-> PhoneFormatted, email |-> EmailJane],
     notes |-> "",
     status |-> "deposit_pending",
     amountDue |-> Cents(250),
     depositAmount |-> 8750,
     depositPercent |-> 35,
     createdAt |-> 0]>>

(* submit of the login form with CONFIG.API_BASE_URL set; remote is what *)
(* the backend does with the request (http_error: credentials rejected); *)
(* loadAllData is answered by the backend when it is reachable           *)
handleLoginBackend(remote) ==
  /\ ~admin.isAuthenticated
  /\ LET request == [method |-> "POST", endpoint |-> "/api/auth/login", arg |-> ""]
         answer == apiRequest(BackendUrl, remote,
                              adminMockApiRequest(request, sb_bookings)) IN
       /\ admin' = IF answer.outcome = "ok"
                     THEN [(IF remote = "ok"
                              THEN [admin EXCEPT !.bookings = RemoteBookings,
                                                 !.blocks = <<>>,
                                                 !.settings = <<getDefaultSettings>>]
                              ELSE loadedAdmin(admin))
                             EXCEPT !.isAuthenticated = TRUE,
                                    !.token = @ \/ usesLocal(answer)]
                     ELSE admin
       /\ event' = [op |-> "handleLogin", who |-> "admin",
                    input |-> [API_BASE_URL |-> BackendUrl, remote |-> remote],
                    calls |-> answer.calls,
                    outcome |-> answer.outcome, result |-> <<>>]
  /\ UNCHANGED <<sb_bookings, sb_blocks, sb_blackout_dates, now, client, sb_settings>>

(* "Sign out" *)
handleLogout ==
  /\ admin.isAuthenticated
  /\ admin' = [admin EXCEPT !.isAuthenticated = FALSE, !.token = FALSE]
  /\ event' = Quiet
  /\ UNCHANGED <<sb_bookings, sb_blocks, sb_blackout_dates, now, client, sb_settings>>

(* deployment: CONFIG.API_BASE_URL and what the backend does with a request *)
NextFallback ==
  \E deployment \in
       {[API_BASE_URL |-> "", remote |-> "none"]}
         \cup {[API_BASE_URL |-> BackendUrl, remote |-> r] :
                 r \in {"ok"} \cup RemoteFailures} :
    \/ \E body \in {bookingData(ValidForm,
                      [selectedService |-> Fulani, selectedDate |-> "2025-11-15",
                       selectedTime |-> t]) : t \in PickTimes} :
         gatewayRequest("client",
           [method |-> "POST", endpoint |-> "/api/bookings", arg |-> body], deployment)
    \/ gatewayRequest("client",
         [method |-> "GET", endpoint |-> "/api/availability?date=",
          arg |-> "2025-11-15"], deployment)
    \/ gatewayRequest("client",
         [method |-> "GET", endpoint |-> "/api/services", arg |-> ""], deployment)
    \/ gatewayRequest("admin",
         [method |-> "GET", endpoint |-> "/api/bookings", arg |-> ""], deployment)
    \/ \E id \in {sb_bookings[i].id : i \in DOMAIN sb_bookings \cap {1}} \cup {"booking-x"} :
         gatewayRequest("admin",
           [method |-> "PATCH", endpoint |-> "/api/bookings/",
            arg |-> [id |-> id, status |-> "cancelled"]], deployment)

SpecFallback == Init /\ [][NextFallback]_vars

(* A client tab of a deployment with a backend configured: requests *)
(* stay in flight while the user goes on using the page              *)
AsyncClientNext(s, forms, dates, times) ==
  \/ openBookingModal(s, Fulani)
  \/ closeBookingModal(s)
  \/ \E d \in dates : selectDateRequest(s, d)
  \/ \E i \in 1..MaxInFlight : availabilityResponse(s, i)
  \/ \E t \in times : timeChange(s, t)
  \/ \E form \in forms : submitBooking(s, form)
  \/ \E i \in 1..MaxInFlight, remote \in {"ok", "network_error"},
        storage \in {"ok", "QuotaExceededError"} :
       bookingResponse(s, i, remote, storage)
  \/ bookingTimer(s)
  \/ clientInit(s)

(* booking submissions in flight *)
NextAsync ==
  AsyncClientNext("tabA", {ValidForm, [ValidForm EXCEPT !.name = Empty]},
                  {"2025-11-15"}, PickTimes)

SpecAsync == Init /\ [][NextAsync]_vars

(* One client tab picking its date on the rendered calendar, in a *)
(* browser of any of the time zones                                *)
InitCalendar ==
  /\ sb_bookings = <<>>
  /\ sb_blocks = <<>>
  /\ sb_blackout_dates = BlackoutDates
  /\ sb_settings = <<>>
  /\ now = 0
  /\ \E timezoneOffset \in {-5, 0, 1} :
       client = [s \in Tabs |->
                  [ClientInit EXCEPT
                     !.calendar = renderCalendar(0, timezoneOffset, BlackoutDates)]]
  /\ admin = AdminInit
  /\ event = Quiet

NextCalendar ==
  \/ openBookingModal("tabA", Fulani)
  \/ closeBookingModal("tabA")
  \/ \E day \in CalendarDays : calendarDateClick("tabA", day)
  \/ \E t \in PickTimes : timeChange("tabA", t)
  \/ handleBookingSubmit("tabA", ValidForm)
  \/ bookingTimer("tabA")

SpecCalendar == InitCalendar /\ [][NextCalendar]_vars

(* availability requests for two dates in flight *)
NextRace ==
  AsyncClientNext("tabA", {ValidForm}, {"2025-11-15", "2025-11-16"}, {"09:00"})

SpecRace == Init /\ [][NextRace]_vars

(* A client tab with submissions in flight and the admin changing the *)
(* status of stored bookings meanwhile                                 *)
NextInterleaved ==
  \/ openBookingModal("tabA", Fulani)
  \/ selectDateRequest("tabA", "2025-11-15")
  \/ availabilityResponse("tabA", 1)
  \/ \E t \in PickTimes : timeChange("tabA", t)
  \/ submitBooking("tabA", ValidForm)
  \/ \E storage \in {"ok", "QuotaExceededError"} :
       bookingResponse("tabA", 1, "network_error", storage)
  \/ bookingTimer("tabA")
  \/ clientInit("tabA")
  \/ AdminSessionNext
  \/ \E i \in DOMAIN admin.bookings : openBookingDrawer(admin.bookings[i].id)
  \/ updateBookingStatus(admin.drawer.id, "deposit_paid")

SpecInterleaved == Init /\ [][NextInterleaved]_vars

(* The admin page of a deployment with a backend configured, the page  *)
(* requests falling back to localStorage when the backend fails, and a *)
(* client tab filling the local store                                  *)
NextBackend ==
  \/ ClientNext("tabA", {ValidForm}, {Fulani}, {"2025-11-15"}, PickTimes)
  \/ \E remote \in {"ok", "network_error"} : handleLoginBackend(remote)
  \/ AdminBookingsNext

SpecBackend == Init /\ [][NextBackend]_vars

(* The login screen of the admin page with a backend configured *)
NextLogin ==
  \/ ClientNext("tabA", {ValidForm}, {Fulani}, {"2025-11-15"}, {"09:00"})
  \/ \E remote \in {"ok"} \cup RemoteFailures : handleLoginBackend(remote)
  \/ handleLogout
  \/ adminInit

SpecLogin == Init /\ [][NextLogin]_vars

(* One page of the booking site that is not loaded again: a request in *)
(* flight gets its response, the timer of a successful submission runs  *)
NextSession ==
  \/ openBookingModal("tabA", Fulani)
  \/ closeBookingModal("tabA")
  \/ selectDateRequest("tabA", "2025-11-15")
  \/ \E i \in 1..MaxInFlight : availabilityResponse("tabA", i)
  \/ \E t \in PickTimes : timeChange("tabA", t)
  \/ submitBooking("tabA", ValidForm)
  \/ \E remote \in {"ok", "network_error"}, storage \in {"ok", "QuotaExceededError"} :
       bookingResponse("tabA", 1, remote, storage)
  \/ bookingTimer("tabA")

SpecSession ==
  /\ Init
  /\ [][NextSession]_vars
  /\ WF_vars(\E remote \in {"ok", "network_error"}, storage \in {"ok", "QuotaExceededError"} :
               bookingResponse("tabA", 1, remote, storage))
  /\ WF_vars(bookingTimer("tabA"))
  /\ WF_vars(NextSession)

(* One client tab and the admin's settings panel *)
NextSettings ==
  \/ ClientNext("tabA", {ValidForm}, {Fulani}, {"2025-11-15"}, PickTimes)
  \/ AdminSessionNext
  \/ \E settings \in {getDefaultSettings,
                       [depositPercent |-> 50, depositMin |-> 20,
                        hoursOpen |-> "09:00", hoursClose |-> "17:00"]} :
       saveSettings(settings)

SpecSettings == Init /\ [][NextSettings]_vars

-----------------------------------------------------------------------------
(* Properties *)

Active(b) == b.status # "cancelled"

(* C1: no two stored bookings whose status is not 'cancelled' have the    *)
(* same (date, time) pair.                                                 *)
C1_NoDoubleBooking ==
  \A i \in DOMAIN sb_bookings : \A j \in DOMAIN sb_bookings :
    (i # j /\ Active(sb_bookings[i]) /\ Active(sb_bookings[j]))
      => ~(sb_bookings[i].date = sb_bookings[j].date
           /\ sb_bookings[i].time = sb_bookings[j].time)

(* C2: every stored booking has amountDue equal to its service's price and *)
(* depositAmount = max(amountDue * depositPercent, depositMin); the        *)
(* service priced 250 gets a deposit of 87.50.                             *)
C2_DepositFormula ==
  \A i \in DOMAIN sb_bookings :
    LET b == sb_bookings[i] IN
    /\ \E k \in DOMAIN Catalog :
         Catalog[k].id = b.serviceId /\ b.amountDue = 100 * Catalog[k].price
    /\ 100 * b.depositAmount = MaxOf(35 * b.amountDue, 100 * 1500)
    /\ (b.amountDue = 25000 => b.depositAmount = 8750)

C2_Witness ==
  /\ event.op = "handleBookingSubmit"
  /\ event.outcome = "ok"
  /\ sb_bookings[Len(sb_bookings)].serviceId = Fulani
  /\ sb_bookings[Len(sb_bookings)].depositAmount = 8750
  /\ \E i \in DOMAIN sb_bookings : sb_bookings[i].depositAmount = 1500

BlockedDates == {sb_blocks[i].date : i \in DOMAIN sb_blocks}

(* C4: for a date that is not blocked, a slot returned by the availability *)
(* query has available = true if and only if no non-cancelled stored       *)
(* booking has exactly that (date, time).                                  *)
C4_AvailableIffNoActiveBooking ==
  (event.op = "selectDate" /\ event.input \notin BlockedDates) =>
    \A n \in DOMAIN event.result.slots :
      LET slot == event.result.slots[n] IN
      slot.available <=>
        ~\E i \in DOMAIN sb_bookings :
           /\ Active(sb_bookings[i])
           /\ sb_bookings[i].date = event.input
           /\ sb_bookings[i].time = slot.time

(* C5: while a stored booking is deposit_pending or deposit_paid, an       *)
(* availability query for its date returns the slot at its time with       *)
(* available = false.                                                      *)
C5_HeldSlotUnavailable ==
  event.op = "selectDate" =>
    \A i \in DOMAIN sb_bookings :
      LET b == sb_bookings[i] IN
      (b.date = event.input /\ b.status \in {"deposit_pending", "deposit_paid"}) =>
        /\ \E n \in DOMAIN event.result.slots : event.result.slots[n].time = b.time
        /\ \A n \in DOMAIN event.result.slots :
             event.result.slots[n].time = b.time => ~event.result.slots[n].available

C5_Witness ==
  /\ event.op = "selectDate"
  /\ \E i \in DOMAIN sb_bookings :
       /\ sb_bookings[i].date = event.input
       /\ sb_bookings[i].status = "deposit_paid"
       /\ sb_bookings[i].time = "09:00"
  /\ \E n \in DOMAIN event.result.slots :
       event.result.slots[n].time = "09:00" /\ ~event.result.slots[n].available
  /\ \E n \in DOMAIN event.result.slots :
       event.result.slots[n].time = "10:00" /\ event.result.slots[n].available

(* C6: the availability query for a date of the stored blocks returns an   *)
(* empty slot sequence.                                                    *)
C6_BlockedDateNoSlots ==
  (event.op = "selectDate" /\ event.input \in BlockedDates) =>
    event.result.slots = <<>>

(* The transitions of the booking state machine *)
TransitionTable ==
  { <<"deposit_pending", "deposit_paid">>, <<"deposit_paid", "completed">>,
    <<"deposit_pending", "cancelled">>, <<"deposit_paid", "cancelled">>,
    <<"deposit_pending", "no_show">>, <<"deposit_paid", "no_show">> }

(* C7: updateBookingStatus for a (current, new) pair that is not in the    *)
(* transition table fails and leaves the stored booking unchanged.         *)
C7_InvalidTransitionRejected ==
  (/\ event.op = "updateBookingStatus"
   /\ <<event.input.from, event.input.to>> \notin TransitionTable) =>
    /\ event.outcome # "ok"
    /\ storedStatus(sb_bookings, event.input.id) = event.input.from

(* C8: updateBookingStatus on a stored booking for a pair of the           *)
(* transition table succeeds, and the bookings the store then lists hold   *)
(* that booking with the new status.                                       *)
C8_TableTransitionPersists ==
  (/\ event.op = "updateBookingStatus"
   /\ <<event.input.from, event.input.to>> \in TransitionTable) =>
    /\ event.outcome = "ok"
    /\ \E i \in DOMAIN sb_bookings :
         /\ sb_bookings[i].id = event.input.id
         /\ sb_bookings[i].status = event.input.to
         /\ \A j \in 1..(i - 1) : sb_bookings[j].id # event.input.id

C8_Witness ==
  /\ event.op = "updateBookingStatus"
  /\ event.input.from = "deposit_paid"
  /\ event.input.to = "completed"
  /\ event.outcome = "ok"
  /\ Len(sb_bookings) = 2
  /\ sb_bookings[2].id = event.input.id
  /\ sb_bookings[1].id # event.input.id

(* C9: a booking created through POST /api/bookings is stored with status *)
(* deposit_pending and the creation time as createdAt, whatever the        *)
(* request body carried, and the response reports deposit_pending.         *)
C9_CreatedPending ==
  [][Len(sb_bookings') = Len(sb_bookings) + 1 =>
       /\ sb_bookings'[Len(sb_bookings')].status = "deposit_pending"
       /\ sb_bookings'[Len(sb_bookings')].createdAt = now'
       /\ event'.result.status = "deposit_pending"]_vars

C9_Witness ==
  /\ event.op = "createBooking"
  /\ "status" \in DOMAIN event.input
  /\ event.input.status = "cancelled"
  /\ sb_bookings[Len(sb_bookings)].status = "deposit_pending"
  /\ sb_bookings[Len(sb_bookings)].date = event.input.date

(* What the booking form calls a failed check *)
FailsACheck(input) ==
  \/ input.form.name \in {Empty, NameBlank}
  \/ input.form.email \in {Empty, EmailNotAnEmail, EmailNoTld, EmailWithSpace}
  \/ input.form.phone \in {Empty, PhoneNineDigits, PhoneWithLetter}
  \/ input.service = "null"
  \/ input.date = "null"
  \/ input.time = "null"

(* C10: a submission of the booking form in which any check fails makes no *)
(* gateway call and leaves the stored bookings unchanged.                  *)
C10_InvalidSubmitNoGateway ==
  [][(event'.op = "handleBookingSubmit" /\ FailsACheck(event'.input)) =>
       /\ event'.calls = <<>>
       /\ sb_bookings' = sb_bookings]_vars

C10_Witness ==
  /\ event.op = "handleBookingSubmit"
  /\ event.input.form = [ValidForm EXCEPT !.email = EmailNotAnEmail]
  /\ event.input.service = Fulani
  /\ event.input.date = "2025-11-15"
  /\ event.input.time = "10:00"
  /\ event.calls = <<>>
  /\ event.outcome = "invalid"
  /\ Len(sb_bookings) = 1

(* A stored booking that is not cancelled occupies (date, time) *)
Occupied(bookings, date, time) ==
  \E i \in DOMAIN bookings :
    /\ Active(bookings[i])
    /\ bookings[i].date = date
    /\ bookings[i].time = time

(* C11: a booking submission whose (date, time) is, at the moment of      *)
(* submission, occupied by an active booking, or whose date is blocked, is *)
(* rejected and adds no booking to the store.                              *)
C11_SubmitRevalidated ==
  [][(/\ event'.op = "handleBookingSubmit"
      /\ \/ Occupied(sb_bookings, event'.input.date, event'.input.time)
         \/ event'.input.date \in BlockedDates)
       => /\ event'.outcome # "ok"
          /\ sb_bookings' = sb_bookings]_vars

HasPhrase(note) == includes(toUpperCase(note), DoNotBookAfter)

(* the hour the claim gives for <h><AM|PM> *)
ClaimedHour(h, period) ==
  IF toUpperCase(period) = <<"P", "M">>
    THEN (IF h = 12 THEN 12 ELSE h + 12)
    ELSE (IF h = 12 THEN 0 ELSE h)

(* C12: for a restriction note '... DO NOT BOOK AFTER <h><AM|PM>'          *)
(* parseTimeRestriction returns 12 for 12PM, 0 for 12AM, h + 12 for hPM    *)
(* with h # 12 and h for hAM with h # 12; when no note has the phrase it   *)
(* returns no restriction.                                                 *)
C12_RestrictionHourConversion ==
  event.op = "parseTimeRestriction" =>
    LET notes == event.input.notes IN
    /\ \A i \in DOMAIN notes :
         \A prefix \in NotePrefixes, h \in RestrictionHours, period \in PeriodTexts :
           (/\ notes[i] = RestrictionNote(prefix, h, period)
            /\ \A j \in DOMAIN notes : j # i => ~HasPhrase(notes[j]))
             => event.result = <<ClaimedHour(h, period)>>
    /\ (\A i \in DOMAIN notes : ~HasPhrase(notes[i])) => event.result = NoRestriction

C12_Witness ==
  /\ event.op = "parseTimeRestriction"
  /\ event.input.notes = <<NoteSelect, RestrictionNote(<<>>, 12, <<"A", "M">>)>>
  /\ event.result = <<0>>

(* positions of a note right after an occurrence of the phrase *)
AfterPhrase(note) ==
  {k + Len(DoNotBookAfter) : k \in
     {m \in 1..(Len(note) - Len(DoNotBookAfter) + 1) :
        SubSeq(toUpperCase(note), m, m + Len(DoNotBookAfter) - 1) = DoNotBookAfter}}

(* the note has the phrase followed by a <digits><AM|PM> pattern *)
CountsAsMatch(note) ==
  \E k \in AfterPhrase(note) : regexMatch(SubSeq(note, k, Len(note))).found

(* the restriction the claim gives for a sequence of notes *)
ClaimedRestriction(notes) ==
  IF ~\E i \in DOMAIN notes : CountsAsMatch(notes[i])
    THEN NoRestriction
    ELSE LET first == CHOOSE i \in DOMAIN notes :
                        /\ CountsAsMatch(notes[i])
                        /\ \A m \in 1..(i - 1) : ~CountsAsMatch(notes[m])
             note == notes[first]
             k == CHOOSE a \in AfterPhrase(note) :
                    /\ regexMatch(SubSeq(note, a, Len(note))).found
                    /\ \A b \in AfterPhrase(note) :
                         regexMatch(SubSeq(note, b, Len(note))).found => a <= b
             match == regexMatch(SubSeq(note, k, Len(note)))
         IN <<ClaimedHour(parseInt(match.digits), match.period)>>

(* C13: the restriction is taken from the first note, in sequence order,   *)
(* that contains 'DO NOT BOOK AFTER' (case-insensitively) followed by a    *)
(* <digits><AM|PM> pattern; the hour is the one that follows the phrase,   *)
(* and a note without the phrase, or without a pattern after the phrase,   *)
(* does not count as a match.                                              *)
C13_FirstMatchingNote ==
  event.op = "parseTimeRestriction" =>
    event.result = ClaimedRestriction(event.input.notes)

(* C14: a slot is flagged as violating a service's restriction exactly     *)
(* when the slot's hour is strictly greater than the restriction hour; a   *)
(* slot at the restriction hour, and any slot of a service with no         *)
(* restriction, is not flagged.                                            *)
C14_FlaggedIffStrictlyLater ==
  event.op = "violatesTimeRestriction" =>
    LET maxHour == parseTimeRestriction(event.input.notes)
        hour == CHOOSE h \in 0..23 : slotTime(h) = event.input.time
    IN /\ maxHour = NoRestriction => event.result = FALSE
       /\ maxHour # NoRestriction => (event.result <=> hour > maxHour[1])

C14_Witness ==
  /\ event.op = "violatesTimeRestriction"
  /\ event.input.notes = <<NoteDoNotBookAfter8AM>>
  /\ event.input.time = "08:00"
  /\ event.result = FALSE

(* C15: the restriction is advisory: an available slot that violates the   *)
(* selected service's restriction is still offered in the time dropdown,   *)
(* with a warning, and a submission with such a time and otherwise valid   *)
(* fields is not rejected: it stores the booking as for any other time.    *)
C15_RestrictionAdvisoryOnly ==
  [][/\ event'.op = "selectDate" =>
          \A i \in DOMAIN event'.result.slots :
            LET slot == event'.result.slots[i]
                st == client[event'.who]
                flagged == /\ st.selectedService # "null"
                           /\ violatesTimeRestriction(findService(st.selectedService),
                                                      slot.time)
            IN slot.available =>
                 \E k \in DOMAIN client'[event'.who].timeOptions :
                   /\ client'[event'.who].timeOptions[k].value = slot.time
                   /\ client'[event'.who].timeOptions[k].warning = flagged
     /\ (/\ event'.op = "handleBookingSubmit"
         /\ ~FailsACheck(event'.input))
          => /\ event'.outcome = "ok"
             /\ Len(sb_bookings') = Len(sb_bookings) + 1
             /\ LET stored == sb_bookings'[Len(sb_bookings')] IN
                  /\ stored.serviceId = event'.input.service
                  /\ stored.date = event'.input.date
                  /\ stored.time = event'.input.time
                  /\ stored.status = "deposit_pending"
                  /\ stored.amountDue = Cents(findService(event'.input.service).price)
    ]_vars

C15_Witness ==
  /\ event.op = "handleBookingSubmit"
  /\ event.outcome = "ok"
  /\ event.input.service = Fulani
  /\ event.input.time = "09:00"
  /\ violatesTimeRestriction(findService(Fulani), "09:00")
  /\ \E k \in DOMAIN client[event.who].timeOptions :
       /\ client[event.who].timeOptions[k].value = "09:00"
       /\ client[event.who].timeOptions[k].warning
  /\ sb_bookings[Len(sb_bookings)].time = "09:00"
  /\ sb_bookings[Len(sb_bookings)].serviceId = Fulani

(* the transports a gateway request tried, in order *)
TransportsTried == [i \in DOMAIN event.calls |-> event.calls[i].transport]

(* C16: with API_BASE_URL configured and the remote request failing, the   *)
(* same request is attempted exactly once against the local transport and  *)
(* an error is surfaced only if that attempt fails too; with API_BASE_URL  *)
(* empty the local transport is used directly and no remote request is     *)
(* made.                                                                   *)
C16_GatewayFallback ==
  event.op = "apiRequest" =>
    /\ event.input.API_BASE_URL = "" => TransportsTried = <<"local">>
    /\ (event.input.API_BASE_URL # "" /\ event.input.remote \in RemoteFailures) =>
         /\ TransportsTried = <<"remote", "local">>
         /\ (event.outcome = "error" <=> event.calls[2].outcome = "error")
         /\ (event.input.request.method = "POST" /\ event.outcome = "ok") =>
              /\ sb_bookings # <<>>
              /\ sb_bookings[Len(sb_bookings)].date = event.input.request.arg.date
              /\ sb_bookings[Len(sb_bookings)].time = event.input.request.arg.time
              /\ event.result.bookingId = sb_bookings[Len(sb_bookings)].id

C16_Witness ==
  /\ event.op = "apiRequest"
  /\ event.input.API_BASE_URL = BackendUrl
  /\ event.input.remote = "http_error"
  /\ event.input.request.method = "POST"
  /\ TransportsTried = <<"remote", "local">>
  /\ event.outcome = "ok"
  /\ Len(sb_bookings) = 2

(* C17: the deposit calculator and the availability resolver read the      *)
(* stored settings: after settings s are saved, the deposit of the next    *)
(* booking is computed from s.depositPercent and s.depositMin, and the     *)
(* slots of the next availability query span s.hoursOpen to s.hoursClose.  *)
C17_SettingsAreRead ==
  sb_settings # <<>> =>
    LET s == sb_settings[1]
        open == CHOOSE h \in 0..23 : slotTime(h) = s.hoursOpen
        close == CHOOSE h \in 0..23 : slotTime(h) = s.hoursClose
    IN /\ (event.op = "handleBookingSubmit" /\ event.outcome = "ok") =>
            LET stored == sb_bookings[Len(sb_bookings)]
                percent == (stored.amountDue * s.depositPercent) \div 100
            IN stored.depositAmount =
                 (IF percent >= Cents(s.depositMin) THEN percent ELSE Cents(s.depositMin))
       /\ event.op = "selectDate" =>
            [i \in DOMAIN event.result.slots |-> event.result.slots[i].time]
              = [i \in 1..(close - open) |-> slotTime(open + i - 1)]

(* C18: for a date that is not blocked the availability query returns      *)
(* exactly one slot for each whole hour from the opening hour up to, and   *)
(* not including, the closing hour (07:00 through 18:00), without          *)
(* duplicates and in ascending order of time.                              *)
C18_OneSlotPerOpenHour ==
  (event.op = "selectDate" /\ event.input \notin BlockedDates) =>
    LET slots == event.result.slots
        hourOf(i) == CHOOSE h \in 0..23 : slotTime(h) = slots[i].time
    IN /\ [i \in DOMAIN slots |-> slots[i].time]
            = <<"07:00", "08:00", "09:00", "10:00", "11:00", "12:00",
                "13:00", "14:00", "15:00", "16:00", "17:00", "18:00">>
       /\ \A i \in DOMAIN slots : \A j \in DOMAIN slots :
            i < j => hourOf(i) < hourOf(j)

C18_Witness ==
  /\ event.op = "selectDate"
  /\ event.input = "2025-11-15"
  /\ Len(event.result.slots) = 12
  /\ ~event.result.slots[3].available
  /\ event.result.slots[4].available
  /\ Len(sb_bookings) = 1

FailingChecks(input) ==
  (IF input.form.name \in {Empty, NameBlank} THEN {"name"} ELSE {})
    \cup (IF input.form.phone \in {Empty, PhoneNineDigits, PhoneWithLetter}
           THEN {"phone"} ELSE {})
    \cup (IF input.form.email \in {Empty, EmailNotAnEmail, EmailNoTld, EmailWithSpace}
           THEN {"email"} ELSE {})
    \cup (IF input.service = "null" THEN {"service"} ELSE {})
    \cup (IF input.date = "null" THEN {"date"} ELSE {})
    \cup (IF input.time = "null" THEN {"time"} ELSE {})

(* the first failing check in the stated order *)
FirstFailingCheck(input) ==
  LET order == <<"name", "phone", "email", "service", "date", "time">>
      k == CHOOSE i \in DOMAIN order :
             /\ order[i] \in FailingChecks(input)
             /\ \A j \in 1..(i - 1) : order[j] \notin FailingChecks(input)
  IN order[k]

(* C20, as claimed: when several checks fail in one booking submission,    *)
(* only the error of the first failing check, in the order customer        *)
(* fields, service, date, time, is reported.                               *)
C20_OnlyFirstErrorReported ==
  (event.op = "handleBookingSubmit" /\ event.outcome = "invalid") =>
    /\ Len(event.result) = 1
    /\ event.result[1].field = FirstFailingCheck(event.input)

(* C20, amended: when several checks fail in one booking submission, the   *)
(* error of every failing check is reported in that submission, and of no  *)
(* other check.                                                            *)
C20_EveryFailingCheckReported ==
  (event.op = "handleBookingSubmit" /\ event.outcome = "invalid") =>
    {event.result[i].field : i \in DOMAIN event.result} = FailingChecks(event.input)

C20_Witness ==
  /\ event.op = "handleBookingSubmit"
  /\ event.outcome = "invalid"
  /\ event.input.form = [ValidForm EXCEPT !.name = NameBlank, !.email = EmailNoTld]
  /\ event.input.service = Fulani
  /\ event.input.date = "2025-11-15"
  /\ event.input.time = "null"
  /\ [i \in DOMAIN event.result |-> event.result[i].field]
       = <<"name", "email", "time", "time">>


(* C21: createBlock followed by deleteBlock of the block it returned       *)
(* restores the stored block list to exactly its contents before the       *)
(* createBlock, whatever the list held and whenever the calls are made.    *)
C21_AddThenDeleteRestores ==
  [][(/\ event.op = "addBlock"
      /\ event'.op = "deleteBlock"
      /\ event'.input = event.result.block.id)
       => sb_blocks' = event.result.blocksBefore]_vars


(* The statuses out of which the booking state machine has no transition *)
TerminalStatuses == {"completed", "cancelled", "no_show"}

(* C22: once a stored booking is completed, cancelled or no_show, the     *)
(* booking drawer offers no status button for it, so no step changes      *)
(* that booking's status again.                                           *)
C22_TerminalStatusFinal ==
  [][\A i \in DOMAIN sb_bookings :
       sb_bookings[i].status \in TerminalStatuses =>
         sb_bookings'[i].status = sb_bookings[i].status]_vars


(* C23: a client session never has more than one booking submission in   *)
(* flight, and while one is in flight its submit control is disabled.    *)
C23_OneSubmissionInFlight ==
  \A s \in Tabs :
    /\ Len(client[s].bookingsInFlight) <= 1
    /\ (client[s].bookingsInFlight # <<>> => client[s].submitDisabled)

C23_Witness ==
  /\ event.op = "submitBooking"
  /\ event.outcome = "pending"
  /\ Len(client["tabA"].bookingsInFlight) = 1
  /\ client["tabA"].submitDisabled
  /\ sb_bookings = <<>>


(* the day of the month a "YYYY-MM-DD" text of November 2025 names *)
dayOfDate(dateString) == CHOOSE day \in 1..30 : dateText(day) = dateString

(* C24: the date a calendar click selects is neither before the day the  *)
(* calendar was rendered on nor a blackout date, and a booking that is   *)
(* submitted is for a date that is neither past nor blacked out.         *)
C24_SelectedDateBookable ==
  [][/\ event'.op = "selectDate" =>
          /\ dayOfDate(event'.input) >= client[event'.who].calendar.today
          /\ \A i \in DOMAIN sb_blackout_dates :
               sb_blackout_dates[i] # event'.input
     /\ (event'.op = "handleBookingSubmit" /\ event'.outcome = "ok") =>
          /\ dayOfDate(event'.input.date) >= localDay(now')
          /\ \A i \in DOMAIN sb_blackout_dates :
               sb_blackout_dates[i] # event'.input.date]_vars


(* C25: once no availability request of a page is pending, the time      *)
(* options it shows are those of the response for STATE.selectedDate,    *)
(* whatever order the responses arrived in.                              *)
C25_SlotsOfSelectedDate ==
  (/\ event.op = "availabilityResponse"
   /\ client[event.who].availabilityInFlight = <<>>
   /\ client[event.who].selectedDate # "null") =>
    event.input = client[event.who].selectedDate


C27_StatusUpdateFrame ==
  [][event'.op = "updateBookingStatus" =>
       IF \E i \in DOMAIN sb_bookings : sb_bookings[i].id = event'.input.id
         THEN /\ event'.outcome = "ok"
              /\ \E i \in DOMAIN sb_bookings :
                   /\ sb_bookings[i].id = event'.input.id
                   /\ sb_bookings' =
                        [sb_bookings EXCEPT ![i].status = event'.input.to]
         ELSE /\ event'.outcome # "ok"
              /\ sb_bookings' = sb_bookings
              /\ admin'.bookings = admin.bookings]_vars

C27_Witness ==
  /\ event.op = "updateBookingStatus"
  /\ event.outcome = "ok"
  /\ event.input.to = "deposit_paid"
  /\ Len(sb_bookings) = 2
  /\ sb_bookings[2].id = event.input.id
  /\ sb_bookings[2].status = "deposit_paid"
  /\ sb_bookings[1].status = "deposit_pending"


(* C28: the stored bookings have pairwise distinct ids, whatever the     *)
(* timing of the createBooking calls and the tab they come from.         *)
C28_BookingIdsUnique ==
  \A i, j \in DOMAIN sb_bookings :
    i # j => sb_bookings[i].id # sb_bookings[j].id


(* C29: whenever a submission has disabled the submit control, the      *)
(* control is eventually enabled again in the same page, whether the     *)
(* gateway call succeeds or fails.                                       *)
C29_SubmitControlRecovers ==
  \A s \in {"tabA"} :
    client[s].submitDisabled ~> ~client[s].submitDisabled


(* C30: with API_BASE_URL set, the admin is authenticated after a login  *)
(* only if the backend accepted the login request; otherwise the session *)
(* stays unauthenticated.                                                *)
C30_LoginNeedsBackendAccept ==
  (event.op = "handleLogin" /\ event.input.API_BASE_URL # "") =>
    (admin.isAuthenticated => event.input.remote = "ok")

=============================================================================
